---- MODULE Spec2Model ----
(***************************************************************************)
(* Model of rslaser/optics/crystal.py and rslaser/optics/element.py:       *)
(* a laser pulse propagating through a gain crystal cut into slices.       *)
(*                                                                         *)
(* Numbers.  Stored arrays (population-inversion mesh, photon counts) are  *)
(* exact rationals [n, d], so that +, -, *, / are the real-number          *)
(* operations of the code.  The numerical library routines the code calls  *)
(* (np.exp, np.log, the FITPACK spline evaluation) return their result     *)
(* rounded down to the lattice of multiples of 1/FP, as a floating-point   *)
(* routine returns a rounded result.                                       *)
(***************************************************************************)
EXTENDS Integers, Sequences, FiniteSets, TLC

VARIABLES
    slices,   \* Crystal.slice: the crystal slices, in construction order
    pulse,    \* the laser pulse handed to the running or last operation
    call,     \* the Crystal.propagate call: its arguments and its position
    log,      \* the operations applied since the call started, in order
    gains,    \* every calc_gain call so far: what it read and what it wrote
    ghost,    \* the meshes at construction and the state when the call started
    lct       \* the last LCT propagation of a wavefront

vars == <<slices, pulse, call, log, gains, ghost, lct>>

(* ------------------------------ bounds -------------------------------- *)

\* resolution of the rounded library routines: results are multiples of 1/FP
FP == 16

(* ----------------------------- rationals ------------------------------ *)

Abs(a) == IF a < 0 THEN -a ELSE a

RECURSIVE Gcd(_, _)
Gcd(a, b) == IF b = 0 THEN a ELSE Gcd(b, a % b)

\* the rational n/d (d # 0) in lowest terms with a positive denominator
R(n, d) ==
    LET g == Gcd(Abs(n), Abs(d))
        s == IF d < 0 THEN -1 ELSE 1
    IN  [n |-> s * (n \div g), d |-> s * (d \div g)]

RInt(k) == [n |-> k, d |-> 1]
RZero == RInt(0)
ROne == RInt(1)

RNeg(a) == [n |-> -a.n, d |-> a.d]

RAdd(a, b) ==
    LET g == Gcd(a.d, b.d)
    IN  R(a.n * (b.d \div g) + b.n * (a.d \div g), a.d * (b.d \div g))

RSub(a, b) == RAdd(a, RNeg(b))

RMul(a, b) ==
    LET g1 == Gcd(Abs(a.n), b.d)
        g2 == Gcd(Abs(b.n), a.d)
    IN  [n |-> (a.n \div g1) * (b.n \div g2), d |-> (a.d \div g2) * (b.d \div g1)]

\* a / b for b # 0
RDiv(a, b) == RMul(a, IF b.n < 0 THEN [n |-> -b.d, d |-> -b.n] ELSE [n |-> b.d, d |-> b.n])

RLt(a, b) ==
    LET g == Gcd(a.d, b.d)
    IN  a.n * (b.d \div g) < b.n * (a.d \div g)

RLe(a, b) == ~RLt(b, a)

\* a rational rounded down to the lattice: the integer floor(a * FP)
ToFix(a) == (a.n \div a.d) * FP + (((a.n % a.d) * FP) \div a.d)

\* the lattice point k/FP as a rational
FromFix(k) == R(k, FP)

(* ------------------- rounded library routines ------------------------- *)

\* guard digits carried inside the series of exp
Guard == FP * FP

\* the Taylor series of exp at the lattice point x >= 0, summed in units of
\* 1/(FP*Guard) until the terms vanish
RECURSIVE ExpTerms(_, _, _)
ExpTerms(x, k, term) ==
    IF term = 0 THEN 0 ELSE term + ExpTerms(x, k + 1, (term * x) \div (k * FP))

\* np.exp: lattice argument, result rounded down to the lattice
ExpPos(x) == ExpTerms(x, 1, FP * Guard) \div Guard
Exp(x) == IF x >= 0 THEN ExpPos(x) ELSE (FP * FP) \div ExpPos(-x)

\* np.log for a lattice argument y >= 1, rounded down to the lattice: the
\* largest x with exp(x) <= y, by bisection (exp(lo) <= y < exp(hi))
RECURSIVE LnBisect(_, _, _)
LnBisect(y, lo, hi) ==
    IF hi - lo <= 1 THEN lo
    ELSE LET mid == (lo + hi) \div 2
         IN  IF ExpPos(mid) <= y THEN LnBisect(y, mid, hi) ELSE LnBisect(y, lo, mid)
Ln(y) == LnBisect(y, 0, 16 * FP)

\* product of two lattice numbers, rounded down to the lattice
FMul(a, b) == (a * b) \div FP

(* ------------------------- grids and meshes --------------------------- *)

\* f itself, with every value computed (TLC evaluates a function expression
\* cell by cell on use; this stores the result)
Eval(f) == f @@ <<>>

\* A grid axis is [start, fin, n]: the n nodes np.linspace(start, fin, n).
\* Coordinates are integers in units of (1.15 * mesh_extent) / 12 and the
\* model's axes have an integral node spacing.
Step(ax) == (ax.fin - ax.start) \div (ax.n - 1)
Pt(ax, i) == ax.start + (i - 1) * Step(ax)

\* the index pairs of an array on axes ax (first index) and ay (second index)
Cells(ax, ay) == (1 .. ax.n) \X (1 .. ay.n)

\* the axis of a population-inversion mesh of n_cells nodes, the same in x and
\* y: np.linspace(-mesh_extent * 1.15, mesh_extent * 1.15, n_cells)
CrystalParams == [mesh_half_width |-> 12, length |-> 1]
MeshAxis(n_cells) ==
    [start |-> -CrystalParams.mesh_half_width, fin |-> CrystalParams.mesh_half_width,
     n |-> n_cells]

\* an axis of half the mesh's width
NarrowAxis(n) ==
    [start |-> -(CrystalParams.mesh_half_width \div 2),
     fin |-> CrystalParams.mesh_half_width \div 2, n |-> n]

\* sum of f[0] .. f[n]
RECURSIVE SumTo(_, _)
SumTo(f, n) == IF n < 0 THEN 0 ELSE f[n] + SumTo(f, n - 1)

\* gcd of |t[0]| .. |t[n]|
RECURSIVE GcdTo(_, _)
GcdTo(t, n) == IF n < 0 THEN 0 ELSE Gcd(Abs(t[n]), GcdTo(t, n - 1))

\* x limited to lo .. hi
Clamp(x, lo, hi) == IF x < lo THEN lo ELSE IF x > hi THEN hi ELSE x

\* The weights of an axis at a coordinate are the integers t[0] .. t[n-1], one
\* per node, over the common denominator t[n].  An interpolating spline takes
\* the node's value at a node, whatever the number of nodes.
OnNode(a, p) == \E k \in 1 .. a.n : Pt(a, k) = p
NodeWeights(a, p) ==
    Eval([k \in 0 .. a.n |-> IF k = a.n \/ Pt(a, k + 1) = p THEN 1 ELSE 0])

\* The interpolating cubic spline on four nodes is the cubic through the four
\* nodes.  LagrangeProduct is the weight of node k (0..3) at the offset q from
\* the first node, for node spacing h, as an integer over 6 * h^3.
LagrangeSign == <<-1, 3, -3, 1>>
LagrangeProduct(h, q, k) ==
    LagrangeSign[k + 1]
    * (IF k = 0 THEN 1 ELSE q) * (IF k = 1 THEN 1 ELSE q - h)
    * (IF k = 2 THEN 1 ELSE q - 2 * h) * (IF k = 3 THEN 1 ELSE q - 3 * h)
LagrangeWeights(a, p) ==
    [k \in 0 .. 4 |->
        IF k = 4 THEN 6 * Step(a) * Step(a) * Step(a)
        ELSE LagrangeProduct(Step(a), p - a.start, k)]

\* weights and denominator divided by their common factor g
DivideWeights(t, g) == Eval([k \in 0 .. 4 |-> t[k] \div g])
ReducedWeights(t) == DivideWeights(t, GcdTo(t, 4))

\* the weights of axis a at the coordinate p inside the axis; between nodes
\* the model evaluates splines on four-node axes only
WeightsInside(a, p) ==
    IF OnNode(a, p) THEN NodeWeights(a, p) ELSE ReducedWeights(LagrangeWeights(a, p))

\* the weights of axis a at any coordinate x: FITPACK's evaluation clamps x to
\* the axis
AxisWeights(a, x) == WeightsInside(a, Clamp(x, a.start, a.fin))

\* the tensor-product spline with weights wx, wy (nx, ny nodes) on the lattice
\* values of arr, rounded down to the lattice
SplineSum(arr, wx, wy, nx, ny) ==
    FromFix(SumTo([l \in 0 .. ny - 1 |->
                      wy[l] * SumTo([k \in 0 .. nx - 1 |->
                                        wx[k] * ToFix(arr[<<k + 1, l + 1>>])], nx - 1)],
                  ny - 1)
            \div (wx[nx] * wy[ny]))

\* RectBivariateSpline(a_x, a_y, arr)(b_x, b_y)
Spline(ax, ay, arr, bx, by) ==
    [c \in Cells(bx, by) |->
        SplineSum(arr, AxisWeights(ax, Pt(bx, c[1])), AxisWeights(ay, Pt(by, c[2])), ax.n, ay.n)]

\* b_r > mesh_extent * 1.15 - 0.9 * dx at array position [i, j] for the mesh
\* axis ma, where b_xv, b_yv = np.meshgrid(b_x, b_y): b_xv[i, j] = b_x[j] and
\* b_yv[i, j] = b_y[i]
MeshRadius(ma) == RSub(RInt(ma.fin), RMul(R(9, 10), R(2 * ma.fin, ma.n)))
BeyondRadius(thr, r2) == RLt(RMul(thr, thr), RInt(r2))
OutsideMesh(ma, bx, by, i, j) ==
    BeyondRadius(MeshRadius(ma), Pt(bx, j) * Pt(bx, j) + Pt(by, i) * Pt(by, i))

\* the spline's values with those outside the mesh radius set to zero
ZeroOutside(ma, bx, by, arr) ==
    [c \in Cells(bx, by) |-> IF OutsideMesh(ma, bx, by, c[1], c[2]) THEN RZero ELSE arr[c]]

\* CrystalSlice._interpolate_a_to_b for a slice with mesh axis ma: the array
\* arr on axes (ax, ay) brought to the axes (bx, by); a copy when the axes are
\* equal, else the spline with the values outside the mesh radius set to zero
InterpolateAToB(ma, ax, ay, arr, bx, by) ==
    IF ax = bx /\ ay = by THEN arr
    ELSE ZeroOutside(ma, bx, by, Eval(Spline(ax, ay, arr, bx, by)))

(* --------------------------- gain calculator -------------------------- *)

degen_factor == R(167, 100)

\* the Taylor branch of the energy gain (epsilon < 1.0e-5), on the lattice: e
\* is epsilon rounded to the lattice, EB, E2B and E3B are exp(beta),
\* exp(2 beta) and exp(3 beta)
GainSeries(e, EB, E2B, E3B) ==
    EB
    - (FMul(FMul(e, EB), EB - FP) \div 2)
    + (FMul(FMul(FMul(e, e), EB), FP - 3 * EB + 2 * E2B) \div 6)
    + (FMul(FMul(FMul(FMul(e, e), e), EB), FP - 7 * EB + 12 * E2B - 6 * E3B) \div 24)
GainTaylor(e, b) == GainSeries(e, Exp(b), Exp(2 * b), Exp(3 * b))

\* the closed form (1 / epsilon) * log(1 + exp(beta) * (exp(epsilon) - 1)):
\* epsilon is the exact quotient's divisor, e and b the lattice arguments
GainClosed(epsilon, e, b) ==
    ToFix(RDiv(FromFix(Ln(FP + FMul(Exp(b), Exp(e) - FP))), epsilon))

\* energy_gain of one cell before the clamp, a lattice number, from the cell's
\* epsilon and beta
RawGain(epsilon, beta) ==
    IF RLt(epsilon, R(1, 100000))
    THEN GainTaylor(ToFix(epsilon), ToFix(beta))
    ELSE GainClosed(epsilon, ToFix(epsilon), ToFix(beta))

\* the clamp left out
NoClampGain(g) == g

\* energy_gain[energy_gain < 1.0] = 1.0
ClampGain(g) == IF g < FP THEN FP ELSE g

\* energy_gain of one cell as calc_gain uses it
EnergyGain(epsilon, beta) == ClampGain(RawGain(epsilon, beta))

\* dx * dy of calc_gain: (xFin - xStart) / nx times (yFin - yStart) / ny
CellArea(ws) == RMul(R(ws.gx.fin - ws.gx.start, ws.gx.n), R(ws.gy.fin - ws.gy.start, ws.gy.n))

\* epsilon and beta of one cell: photons and inversion are the cell's photon
\* count and interpolated inversion
Epsilon(ws, photons) == RMul(degen_factor, RMul(ws.sigma, RDiv(photons, CellArea(ws))))
Beta(ws, inversion, len) == RMul(ws.sigma, RMul(inversion, len))

\* the energy_gain array of calc_gain for the crystal slice s and the pulse
\* (sub-)slice ws, from the inversion brought to the wavefront grid
GainOn(s, ws, temp_pop_inversion) ==
    [c \in Cells(ws.gx, ws.gy) |->
        EnergyGain(Epsilon(ws, ws.photons[c]), Beta(ws, temp_pop_inversion[c], s.length))]
GainArray(s, ws) ==
    GainOn(s, ws, Eval(InterpolateAToB(s.axis, s.axis, s.axis, s.pop_inversion_mesh,
                                       ws.gx, ws.gy)))

\* change_pop_mesh without the division by the slice length
ChangePopMeshNoLength(g, len, ws) ==
    [c \in Cells(ws.gx, ws.gy) |->
        RNeg(RMul(degen_factor,
                  RMul(RDiv(ws.photons[c], CellArea(ws)), RSub(FromFix(g[c]), ROne))))]

\* change_pop_mesh on the wavefront grid, for the energy gain g
ChangePopMesh(g, len, ws) ==
    [c \in Cells(ws.gx, ws.gy) |->
        RNeg(RDiv(RMul(degen_factor,
                       RMul(RDiv(ws.photons[c], CellArea(ws)), RSub(FromFix(g[c]), ROne))),
                  len))]

\* one entry of a field's history: the operation applied, the crystal slice
\* that applied it and what it applied (for a gain, the energy gain whose
\* square root scaled the field)
FieldOp(op, cs, arg) == [op |-> op, cs |-> cs, arg |-> arg]

\* the end of calc_gain with the mesh left as it was: the change goes to a copy
GainWriteToCopy(s, ws, g, change) ==
    [s |-> s,
     ws |-> [ws EXCEPT !.photons = Eval([c \in Cells(ws.gx, ws.gy) |->
                                            RMul(ws.photons[c], FromFix(g[c]))]),
                       !.field = Append(ws.field, FieldOp("gain", s.slice_index, g))],
     gain |-> g,
     change |-> change]

\* the end of calc_gain: the mesh takes the change, the photon counts are
\* multiplied by the gain and the field by its square root
GainWrite(s, ws, g, change) ==
    [s |-> [s EXCEPT !.pop_inversion_mesh =
                        Eval([c \in Cells(s.axis, s.axis) |->
                                 RAdd(s.pop_inversion_mesh[c], change[c])])],
     ws |-> [ws EXCEPT !.photons = Eval([c \in Cells(ws.gx, ws.gy) |->
                                            RMul(ws.photons[c], FromFix(g[c]))]),
                       !.field = Append(ws.field, FieldOp("gain", s.slice_index, g))],
     gain |-> g,
     change |-> change]

\* calc_gain from the energy gain g on: change_pop_mesh is brought back to
\* the mesh's grid and written
GainDeplete(s, ws, g) ==
    GainWrite(s, ws, g,
              Eval(InterpolateAToB(s.axis, ws.gx, ws.gy, Eval(ChangePopMesh(g, s.length, ws)),
                                   s.axis, s.axis)))

\* CrystalSlice.calc_gain of the crystal slice s on the pulse (sub-)slice ws:
\* the slice and the (sub-)slice afterwards, the gain used and the change
\* written to the mesh
CalcGain(s, ws) == GainDeplete(s, ws, Eval(GainArray(s, ws)))

\* what a calc_gain call read and wrote: s and ws are the crystal slice and the
\* pulse (sub-)slice before the call, r is CalcGain's result, where says in
\* which call and on which branch of it the call was made
GainRecord(s, ws, r, where) ==
    [cs |-> s.slice_index, call |-> where.call, branch |-> where.branch, j |-> ws.j, k |-> ws.k,
     len |-> s.length, axis |-> s.axis, gx |-> ws.gx, gy |-> ws.gy, gain |-> r.gain,
     mesh_read |-> s.pop_inversion_mesh, mesh_written |-> r.s.pop_inversion_mesh,
     change |-> r.change, photons_read |-> ws.photons, ws |-> r.ws]

(* --------------------------- LCT propagation -------------------------- *)

\* A sampled field is [gx, gy, values]: values[<<i, j>>] at (gx node i, gy
\* node j); it stands for each of the four arrays (real and imaginary parts of
\* the two polarisations), which the code treats alike.

\* an axis left with the count it has
KeepAxis(a) == a

\* x_new of _interp_to_odd: nx + 1 nodes from np.min(x_old) to np.max(x_old)
\* when nx is even, a copy of x_old when nx is odd
OddAxis(a) == [start |-> a.start, fin |-> a.fin, n |-> IF a.n % 2 = 0 THEN a.n + 1 ELSE a.n]

\* _interp_to_odd of crystal.py: every array resampled by the spline when
\* either count is even, a deep copy when both are odd
InterpToOdd(w) ==
    IF w.gx.n % 2 = 0 \/ w.gy.n % 2 = 0
    THEN [gx |-> OddAxis(w.gx), gy |-> OddAxis(w.gy),
          values |-> Eval(Spline(w.gx, w.gy, w.values, OddAxis(w.gx), OddAxis(w.gy)))]
    ELSE w

\* _interp_to_odd of element.py, the same routine
ElementInterpToOdd(w) ==
    IF w.gx.n % 2 = 0 \/ w.gy.n % 2 = 0
    THEN [gx |-> OddAxis(w.gx), gy |-> OddAxis(w.gy),
          values |-> Eval(Spline(w.gx, w.gy, w.values, OddAxis(w.gx), OddAxis(w.gy)))]
    ELSE w

\* what rslct.apply_lct_2d_sep returns is [nx, ny, dx, dy, values]: an array
\* of shape (nx, ny) with sample spacings dx, dy.  The signal of the kernel's
\* output on the axes the code gives it: np.linspace(-total / 2, total / 2,
\* count) with total = (count - 1) * spacing
CentredAxis(count, spacing) ==
    [start |-> -(((count - 1) * spacing) \div 2), fin |-> ((count - 1) * spacing) \div 2,
     n |-> count]
KernelSignal(out) ==
    [gx |-> CentredAxis(out.nx, out.dx), gy |-> CentredAxis(out.ny, out.dy),
     values |-> out.values]

\* dX_out, dY_out after the second _interp_to_odd: np.mean(np.diff(.)) of the
\* new axes when either count of the kernel's output is even
SpacingOut(out, odd) ==
    IF out.nx % 2 = 0 \/ out.ny % 2 = 0
    THEN [dx |-> Step(odd.gx), dy |-> Step(odd.gy)]
    ELSE [dx |-> out.dx, dy |-> out.dy]

\* np.min and np.max of rslct.lct_abscissae(n, h), the n abscissae
\* h * (i - n div 2), as an axis of count nodes
AbscissaeAxis(n, h, count) ==
    [start |-> -(h * (n \div 2)), fin |-> h * (n - 1 - (n \div 2)), n |-> count]

\* the wavefront remade from the resampled output odd with spacings sp:
\* ny, nx = np.shape(out_signal_2d_x), and both axes of the new mesh run over
\* the span of local_xv
RemadeWavefront(odd, sp, l_scale) ==
    [gx |-> AbscissaeAxis(odd.gy.n, sp.dx * l_scale, odd.gy.n),
     gy |-> AbscissaeAxis(odd.gy.n, sp.dx * l_scale, odd.gx.n),
     values |-> odd.values]

\* the record of one LCT propagation: the wavefront w0 that came in, the
\* signal fed handed to the kernel, the kernel's output out, its resampling
\* odd and the wavefront remade
LctRecord(kind, w0, fed, out, odd, l_scale) ==
    [kind |-> kind, wfr0 |-> w0, fed |-> fed, out |-> KernelSignal(out), odd |-> odd,
     wfr |-> RemadeWavefront(odd, SpacingOut(out, odd), l_scale)]

\* _propagate_lct of crystal.py on the wavefront w0, the kernel returning out
PropagateLct(w0, out, l_scale) ==
    LctRecord("crystal", w0, InterpToOdd(w0), out, InterpToOdd(KernelSignal(out)), l_scale)

\* _wfr_prop_abcd_lct of element.py on the wavefront w0, the kernel
\* returning out
WfrPropAbcdLct(w0, out, l_scale) ==
    LctRecord("element", w0, ElementInterpToOdd(w0), out, ElementInterpToOdd(KernelSignal(out)),
              l_scale)

(* ------------------------- crystal and pulse -------------------------- *)

Border(c, n) == c[1] \in {1, n} \/ c[2] \in {1, n}
Corner(c, n) == c[1] \in {1, n} /\ c[2] \in {1, n}

\* population-inversion meshes a pump leaves at construction (inputs of the
\* model: the pump's deposition is not computed here): none, uniform, and
\* peaked on the axis
SeedPatterns == {"dark", "flat", "peak"}
SeedMesh(pattern, axis) ==
    Eval([c \in Cells(axis, axis) |->
            CASE pattern = "dark" -> RZero
              [] pattern = "flat" -> ROne
              [] pattern = "peak" -> IF Corner(c, axis.n) THEN RZero
                                     ELSE IF Border(c, axis.n) THEN R(1, 2) ELSE RInt(2)])

\* photon-count meshes of a pulse (sub-)slice on axes (ax, ay): empty,
\* uniform, and a single bright cell off the axis
PhotonPatterns == {"none", "even", "spot"}
PhotonMesh(pattern, ax, ay) ==
    Eval([c \in Cells(ax, ay) |->
            CASE pattern = "none" -> RZero
              [] pattern = "even" -> RInt(9)
              [] pattern = "spot" -> IF c = <<3, 2>> THEN RInt(9) ELSE RZero])

\* a CrystalSlice as CrystalSlice.__init__ leaves it: p holds the parameters
\* slice_index, length, n0, n2, delta_n (whether a delta_n array was given;
\* the default is None), pump_offset and the mesh axis; the element's
\* prop_type is "srw" and no _srwc is set
NewSlice(p, mesh) ==
    [slice_index |-> p.slice_index, length |-> p.length, n0 |-> p.n0, n2 |-> p.n2,
     delta_n |-> p.delta_n, pump_offset |-> p.pump_offset, axis |-> p.axis,
     prop_type |-> "srw", srwc |-> FALSE, pop_inversion_mesh |-> mesh]

\* every slice given the crystal's whole length
SliceParamsWholeLength(j, nslice, delta_n, pump_offset, axis) ==
    [slice_index |-> j, length |-> RInt(CrystalParams.length), n0 |-> RInt(2), n2 |-> ROne,
     delta_n |-> delta_n, pump_offset |-> pump_offset, axis |-> axis]

\* the parameters Crystal.__init__ hands to slice j of nslice
SliceParams(j, nslice, delta_n, pump_offset, axis) ==
    [slice_index |-> j, length |-> R(CrystalParams.length, nslice), n0 |-> RInt(2), n2 |-> ROne,
     delta_n |-> delta_n, pump_offset |-> pump_offset, axis |-> axis]

\* Crystal.slice after Crystal.__init__
NewCrystal(nslice, delta_n, pump_offset, axis, seed) ==
    [i \in 1 .. nslice |->
        NewSlice(SliceParams(i - 1, nslice, delta_n, pump_offset, axis), SeedMesh(seed, axis))]

\* a pulse time slice (k = 0) or bandwidth sub-slice k - 1 (k > 0) of time
\* slice j: its wavefront grid, photon counts, emission cross-section at its
\* wavelength and its field's history
NewWfrSlice(j, k, ax, ay, photons, sigma) ==
    [j |-> j, k |-> k, gx |-> ax, gy |-> ay, photons |-> photons, sigma |-> sigma,
     field |-> <<>>]

\* the time slices and bandwidth sub-slices of a pulse of shape <<nslice,
\* bw_nslice>>, in the order the slice handlers go through them
UnitOf(i, shape, ax) ==
    NewWfrSlice((i - 1) \div (shape[2] + 1), (i - 1) % (shape[2] + 1), ax, ax,
                PhotonMesh(IF (i - 1) % (shape[2] + 1) = 0 THEN "even" ELSE "spot", ax, ax),
                IF (i - 1) % (shape[2] + 1) = 0 THEN ROne ELSE R(1, 2))
NewPulse(direction, shape, ax) ==
    [direction |-> direction,
     units |-> [i \in 1 .. shape[1] * (shape[2] + 1) |-> UnitOf(i, shape, ax)],
     l_scale |-> 1, shift |-> <<0, 0>>, nupdate |-> 0, nresize |-> 0]

\* one entry of the log: the operation, the crystal slice, the branch of the
\* traversal and the (sub-)slice it was applied to
Event(op, cs, branch, j, k) == [op |-> op, cs |-> cs, branch |-> branch, j |-> j, k |-> k]
PulseEvent(op, cs) == Event(op, cs, "main", -1, -1)

(* ----------------------- CrystalSlice.propagate ----------------------- *)

\* What a slice handler does with each time slice and bandwidth sub-slice:
\* whether it applies the gain, the kick, which transform, and whether it
\* resizes the pulse's mesh at its end; raise names the exception the
\* dispatch ends with instead.
Plan(gain, kick, transform, resize) ==
    [raise |-> "", gain |-> gain, kick |-> kick, transform |-> transform, resize |-> resize]
Raise(exception) ==
    [raise |-> exception, gain |-> FALSE, kick |-> FALSE, transform |-> "none", resize |-> FALSE]

PropagateAbcdLct(calc_gain, nl_kick) == Plan(calc_gain, nl_kick, "abcd_lct", FALSE)
PropagateN0n2Lct(calc_gain, nl_kick) == Plan(calc_gain, nl_kick, "n0n2_lct", TRUE)
PropagateN0n2Srw(calc_gain, nl_kick) == Plan(calc_gain, nl_kick, "n0n2_srw", FALSE)

\* a gain handler that follows the switches
PropagateGainCalcSwitched(calc_gain, nl_kick) == Plan(calc_gain, nl_kick, "none", FALSE)

PropagateGainCalc(calc_gain, nl_kick) == Plan(TRUE, FALSE, "none", FALSE)

\* a dispatch that falls back to a handler for a mode it does not know
DispatchLenient(prop_type, calc_gain, nl_kick) ==
    CASE prop_type = "abcd_lct" -> PropagateAbcdLct(calc_gain, nl_kick)
      [] prop_type = "n0n2_lct" -> PropagateN0n2Lct(calc_gain, nl_kick)
      [] prop_type = "gain_calc" -> PropagateGainCalc(calc_gain, nl_kick)
      [] OTHER -> PropagateN0n2Srw(calc_gain, nl_kick)

\* PKDict(abcd_lct=..., n0n2_lct=..., n0n2_srw=..., gain_calc=...)[prop_type]
Dispatch(prop_type, calc_gain, nl_kick) ==
    CASE prop_type = "abcd_lct" -> PropagateAbcdLct(calc_gain, nl_kick)
      [] prop_type = "n0n2_lct" -> PropagateN0n2Lct(calc_gain, nl_kick)
      [] prop_type = "n0n2_srw" -> PropagateN0n2Srw(calc_gain, nl_kick)
      [] prop_type = "gain_calc" -> PropagateGainCalc(calc_gain, nl_kick)
      [] OTHER -> Raise("KeyError")

\* Element.propagate(laser_pulse) on a crystal slice: with prop_type "srw" it
\* needs the _srwc field
ElementPropagate(s) ==
    IF s.prop_type = "srw" /\ ~s.srwc THEN Raise("ElementException")
    ELSE Plan(FALSE, FALSE, "element", FALSE)

\* the head of CrystalSlice.propagate
SlicePlan(s, prop_type, calc_gain, nl_kick) ==
    IF prop_type = "default" THEN ElementPropagate(s) ELSE Dispatch(prop_type, calc_gain, nl_kick)

\* The state of a slice handler under way: the crystal slice s, the pulse's
\* (sub-)slices units, the pulse's counts of mesh resizes and of position
\* updates, the log, the gain records, the exception raised ("" for none),
\* where the handler runs and what it returns ("pulse" or "None").
Handler(s, p, lg, gs, where) ==
    [s |-> s, units |-> p.units, l_scale |-> p.l_scale, nresize |-> p.nresize,
     nupdate |-> p.nupdate, log |-> lg, gains |-> gs, err |-> "", where |-> where,
     ret |-> "pulse"]

UnitEvent(st, i, op) ==
    Event(op, st.s.slice_index, st.where.branch, st.units[i].j, st.units[i].k)

\* thisSlice = self.calc_gain(thisSlice)
GainLogged(st, i, r) ==
    [st EXCEPT !.s = r.s, !.units[i] = r.ws, !.log = Append(@, UnitEvent(st, i, "gain")),
               !.gains = Append(@, GainRecord(st.s, st.units[i], r, st.where))]
GainUnit(st, i, plan) ==
    IF plan.gain THEN GainLogged(st, i, CalcGain(st.s, st.units[i])) ELSE st

\* a kick that also clears the slice's population-inversion mesh
KickUnitOnMesh(st, i, plan) ==
    IF ~plan.kick THEN st
    ELSE IF ~st.s.delta_n THEN [st EXCEPT !.err = "TypeError"]
    ELSE [st EXCEPT !.units[i].field = Append(@, FieldOp("kick", st.s.slice_index, "delta_n")),
                    !.log = Append(@, UnitEvent(st, i, "kick")),
                    !.s.pop_inversion_mesh = [c \in DOMAIN @ |-> RZero]]

\* thisSlice = self.nl_kick(thisSlice): self.delta_n[0] raises TypeError when
\* delta_n is None
KickUnit(st, i, plan) ==
    IF ~plan.kick THEN st
    ELSE IF ~st.s.delta_n THEN [st EXCEPT !.err = "TypeError"]
    ELSE [st EXCEPT !.units[i].field = Append(@, FieldOp("kick", st.s.slice_index, "delta_n")),
                    !.log = Append(@, UnitEvent(st, i, "kick"))]

\* the kernel returning the sampling it was handed
EchoKernel(fed, l_scale) ==
    [nx |-> fed.gx.n, ny |-> fed.gy.n, dx |-> Step(fed.gx) \div l_scale,
     dy |-> Step(fed.gy) \div l_scale, values |-> fed.values]

\* the (sub-)slice u with the wavefront wfr in place of its own
WithWavefront(u, wfr, op) ==
    [u EXCEPT !.gx = wfr.gx, !.gy = wfr.gy, !.field = Append(u.field, op)]

\* thisSlice.wfr = _propagate_lct(...) for a kernel that returns the sampling
\* it was handed
LctUnit(s, u, l_scale, matrix) ==
    WithWavefront(u,
                  PropagateLct([gx |-> u.gx, gy |-> u.gy, values |-> u.field],
                               EchoKernel(InterpToOdd([gx |-> u.gx, gy |-> u.gy,
                                                       values |-> u.field]), l_scale),
                               l_scale).wfr,
                  FieldOp("lct", s.slice_index, matrix))

\* srwlib.srwl.PropagElecField(thisSlice.wfr, optBL): a drift of L / n0 when
\* n2 is 0, else lens, drift, lens; the propagation parameters ask for no
\* resizing of the mesh
SrwUnit(s, u) ==
    [u EXCEPT !.field = Append(@, FieldOp("srw", s.slice_index,
                                          IF s.n2 = RZero THEN "drift" ELSE "lens_drift_lens"))]

Transformed(s, u, l_scale, transform) ==
    CASE transform = "abcd_lct" -> LctUnit(s, u, l_scale, "ABCD")
      [] transform = "n0n2_lct" -> LctUnit(s, u, l_scale, "n0n2")
      [] transform = "n0n2_srw" -> SrwUnit(s, u)
      [] transform = "element" ->
            [u EXCEPT !.field = Append(@, FieldOp("srw", s.slice_index, "_srwc"))]
      [] OTHER -> u

\* Element.propagate goes through laser_pulse.slice only, not through the
\* bandwidth sub-slices
TransformUnit(st, i, plan) ==
    IF st.err # "" \/ plan.transform = "none" THEN st
    ELSE IF plan.transform = "element" /\ st.units[i].k # 0 THEN st
    ELSE [st EXCEPT !.units[i] = Transformed(st.s, @, st.l_scale, plan.transform),
                    !.log = Append(@, UnitEvent(st, i, "transform"))]

\* the body of a handler's loops with the transform first
UnitStepTransformFirst(st, i, plan) ==
    KickUnit(GainUnit(TransformUnit(st, i, plan), i, plan), i, plan)

\* the body of a handler's loops for one time slice or bandwidth sub-slice:
\* gain, kick, transform
UnitStep(st, i, plan) == TransformUnit(KickUnit(GainUnit(st, i, plan), i, plan), i, plan)

\* for j in np.arange(laser_pulse.nslice): ... for k in
\* np.arange(thisSlice.bw_nslice): ..., until an exception
RECURSIVE UnitLoop(_, _, _)
UnitLoop(st, i, plan) ==
    IF i > Len(st.units) \/ st.err # "" THEN st ELSE UnitLoop(UnitStep(st, i, plan), i + 1, plan)

\* laser_pulse.resize_laser_mesh() at the end of _propagate_n0n2_lct,
\* laser_pulse.update_photon_positions() at the end of Element.propagate
HandlerEnd(st, plan) ==
    IF st.err = "" /\ plan.resize
    THEN [st EXCEPT !.nresize = @ + 1,
                    !.log = Append(@, Event("resize", st.s.slice_index, st.where.branch, -1, -1))]
    ELSE IF st.err = "" /\ plan.transform = "element"
    THEN [st EXCEPT !.nupdate = @ + 1,
                    !.log = Append(@, Event("update", st.s.slice_index, "element", -1, -1))]
    ELSE st

RunPlan(st, plan) ==
    IF plan.raise # "" THEN [st EXCEPT !.err = plan.raise] ELSE HandlerEnd(UnitLoop(st, 1, plan), plan)

\* CrystalSlice.propagate(laser_pulse, prop_type, calc_gain, nl_kick) started
\* in the handler state st
SlicePropagate(st, prop_type, calc_gain, nl_kick) ==
    [RunPlan(st, SlicePlan(st.s, prop_type, calc_gain, nl_kick)) EXCEPT
        !.ret = IF prop_type = "default" THEN "None" ELSE "pulse"]

(* -------------------------- Crystal.propagate ------------------------- *)

\* passes made in a row through one crystal
MaxCalls == 2

\* crystal slices
MaxSlices == 2

\* the assertion on laser_pulse.pulse_direction left out
AnyDirection(direction) == TRUE

\* (laser_pulse.pulse_direction == 0.0) or (laser_pulse.pulse_direction == 180.0)
DirectionOk(direction) == direction = 0 \/ direction = 180

\* the slices taken in construction order whatever the direction
SliceArrayForward(direction, nslice) == [i \in 1 .. nslice |-> i]

\* slice_array as positions in Crystal.slice: self.slice for direction 0,
\* self.slice[::-1] for direction 180 (no other direction passes the assertion)
SliceArray(direction, nslice) ==
    IF direction = 0 THEN [i \in 1 .. nslice |-> i] ELSE [i \in 1 .. nslice |-> nslice + 1 - i]

\* whether the first slice's pump is off the axis
PumpOffset(ss) == ss[1].pump_offset
OffAxis(ss) == PumpOffset(ss)[1] # 0 \/ PumpOffset(ss)[2] # 0

\* a shift that leaves the pulse where it is
ShiftWavefrontNowhere(p, offset, sign) == p

\* laser_pulse.shift_wavefront(sign * pump_offset_x, sign * pump_offset_y)
ShiftWavefront(p, offset, sign) ==
    [p EXCEPT !.shift = <<@[1] + sign * offset[1], @[2] + sign * offset[2]>>]

\* laser_pulse.update_photon_positions()
UpdatePhotonPositions(p) == [p EXCEPT !.nupdate = @ + 1]

\* laser_pulse.resize_laser_mesh()
ResizeLaserMesh(p) == [p EXCEPT !.nresize = @ + 1]

\* laser_pulse.combine_n2_variation(laser_pulse_copies, ...): every
\* (sub-)slice becomes the radial blend of its two propagated copies
CombineN2Variation(p, n2_max, n2_0, s) ==
    [p EXCEPT !.units = [i \in 1 .. Len(p.units) |->
                            [n2_max.units[i] EXCEPT
                                !.field = <<FieldOp("combine", s.slice_index,
                                                    [n2_max |-> n2_max.units[i].field,
                                                     n2_0 |-> n2_0.units[i].field])>>]],
              !.nresize = n2_max.nresize]

\* the assertion on the direction, the choice of slice_array and the shift of
\* the pulse p into the pump's frame: the first lines of Crystal.propagate
CallEnds(p, failed) ==
    /\ ghost' = [ghost EXCEPT !.entry = [pulse |-> p, slices |-> slices]]
    /\ call' = [call EXCEPT !.pc = IF failed THEN "failed" ELSE "running",
                            !.err = IF failed THEN "AssertionError" ELSE "",
                            !.todo = IF failed THEN <<>>
                                     ELSE SliceArray(p.direction, Len(slices)),
                            !.ncalls = @ + 1]
    /\ pulse' = IF failed \/ ~OffAxis(slices) THEN p
                ELSE ShiftWavefront(p, PumpOffset(slices), 1)
    /\ log' = IF failed \/ ~OffAxis(slices) THEN <<>> ELSE <<PulseEvent("shift", -1)>>
    /\ UNCHANGED <<slices, gains, lct>>

Directions == {0, 90, 180}
PulseShapes == {<<1, 1>>, <<2, 0>>}

\* Crystal.propagate is called with a pulse of some direction and shape
Call ==
    /\ call.pc \in {"idle", "returned"}
    /\ call.ncalls < MaxCalls
    /\ \E direction \in Directions, shape \in PulseShapes :
          CallEnds(NewPulse(direction, shape, slices[1].axis), ~DirectionOk(direction))

\* the pulse a slice handler hands back in state st
PulseOf(p, st) ==
    [p EXCEPT !.units = st.units, !.nresize = st.nresize, !.nupdate = st.nupdate]

\* the end of one round of the loop over slice_array for slice position i: r
\* is the handler's state on the crystal's own slice and p the pulse the
\* round leaves (before laser_pulse.update_photon_positions())
RoundEnds(i, r, p, lg, gs) ==
    /\ slices' = [slices EXCEPT ![i] = r.s]
    /\ gains' = gs
    /\ IF r.err # "" \/ r.ret = "None"
       THEN /\ call' = [call EXCEPT !.pc = "failed",
                                    !.err = IF r.err # "" THEN r.err ELSE "AttributeError"]
            /\ pulse' = p
            /\ log' = lg
       ELSE /\ call' = [call EXCEPT !.todo = Tail(@)]
            /\ pulse' = UpdatePhotonPositions(p)
            /\ log' = Append(lg, PulseEvent("update", r.s.slice_index))
    /\ UNCHANGED <<ghost, lct>>

\* laser_pulse = s.propagate(laser_pulse, prop_type, calc_gain, nl_kick)
PlainRound(i, r) == RoundEnds(i, r, PulseOf(pulse, r), r.log, r.gains)

\* the radial_n2 round from the two propagated copies r1 (through s) and r2
\* (through the copy of s with n2 = 0)
RadialCombine(i, r1, r2) ==
    RoundEnds(i, r1,
              CombineN2Variation(pulse, PulseOf(pulse, r1), PulseOf(pulse, r2), slices[i]),
              Append(r2.log, PulseEvent("combine", slices[i].slice_index)), r2.gains)

\* the second propagation made on the pulse and the slice the first one left,
\* not on copies taken before it
RadialSecondShared(i, r1, where) ==
    RadialCombine(i, r1,
                  SlicePropagate(Handler([r1.s EXCEPT !.n2 = RZero], PulseOf(pulse, r1), r1.log,
                                         r1.gains, where),
                                 call.prop_type, call.calc_gain, FALSE))

\* temp_crystal_slice copied from s after the first copy went through s
RadialSecondLateCopy(i, r1, where) ==
    RadialCombine(i, r1,
                  SlicePropagate(Handler([r1.s EXCEPT !.n2 = RZero], pulse, r1.log, r1.gains,
                                         where),
                                 call.prop_type, call.calc_gain, FALSE))

\* the second copy goes through temp_crystal_slice, which was copied from s
\* before the first copy went through s
RadialSecond(i, r1, where) ==
    RadialCombine(i, r1,
                  SlicePropagate(Handler([slices[i] EXCEPT !.n2 = RZero], pulse, r1.log,
                                         r1.gains, where),
                                 call.prop_type, call.calc_gain, FALSE))

\* the radial_n2 round with the assertion on prop_type left out
RadialRoundUnchecked(i) ==
    RadialSecond(i,
                 SlicePropagate(Handler(slices[i], pulse, log, gains,
                                        [call |-> call.ncalls, branch |-> "n2_max"]),
                                call.prop_type, call.calc_gain, FALSE),
                 [call |-> call.ncalls, branch |-> "n2_0"])

\* the radial_n2 round handing nl_kick on to the propagation of the first copy
RadialRoundKicking(i) ==
    IF call.prop_type # "n0n2_srw"
    THEN /\ call' = [call EXCEPT !.pc = "failed", !.err = "AssertionError"]
         /\ UNCHANGED <<slices, pulse, log, gains, ghost, lct>>
    ELSE RadialSecond(i,
                      SlicePropagate(Handler(slices[i], pulse, log, gains,
                                             [call |-> call.ncalls, branch |-> "n2_max"]),
                                     call.prop_type, call.calc_gain, call.nl_kick),
                      [call |-> call.ncalls, branch |-> "n2_0"])

\* the radial_n2 round: the assertion on prop_type, then the two copies
RadialRound(i) ==
    IF call.prop_type # "n0n2_srw"
    THEN /\ call' = [call EXCEPT !.pc = "failed", !.err = "AssertionError"]
         /\ UNCHANGED <<slices, pulse, log, gains, ghost, lct>>
    ELSE RadialSecond(i,
                      SlicePropagate(Handler(slices[i], pulse, log, gains,
                                             [call |-> call.ncalls, branch |-> "n2_max"]),
                                     call.prop_type, call.calc_gain, FALSE),
                      [call |-> call.ncalls, branch |-> "n2_0"])

\* one round of "for s in slice_array"
SliceStep ==
    /\ call.pc = "running"
    /\ call.todo # <<>>
    /\ IF call.radial_n2
       THEN RadialRound(Head(call.todo))
       ELSE PlainRound(Head(call.todo),
                       SlicePropagate(Handler(slices[Head(call.todo)], pulse, log, gains,
                                              [call |-> call.ncalls, branch |-> "main"]),
                                      call.prop_type, call.calc_gain, call.nl_kick))

\* the pulse after the loop with the inverse shift left out
ReturnedShifted(p, ss) == ResizeLaserMesh(p)

\* the pulse after the loop: shifted back and resized
Returned(p, ss) ==
    ResizeLaserMesh(IF OffAxis(ss) THEN ShiftWavefront(p, PumpOffset(ss), -1) ELSE p)

\* the end of Crystal.propagate: the inverse shift, the resize, the return
Return ==
    /\ call.pc = "running"
    /\ call.todo = <<>>
    /\ pulse' = Returned(pulse, slices)
    /\ log' = log \o (IF OffAxis(slices) THEN <<PulseEvent("unshift", -1)>> ELSE <<>>)
                  \o <<PulseEvent("resize", -1)>>
    /\ call' = [call EXCEPT !.pc = "returned"]
    /\ UNCHANGED <<slices, gains, ghost, lct>>

\* no call made, no LCT propagation made
NoCall(prop_type, calc_gain, radial_n2, nl_kick) ==
    [pc |-> "idle", prop_type |-> prop_type, calc_gain |-> calc_gain, radial_n2 |-> radial_n2,
     nl_kick |-> nl_kick, todo |-> <<>>, ncalls |-> 0, err |-> ""]

\* the meshes of the slices ss
Meshes(ss) == [i \in 1 .. Len(ss) |-> ss[i].pop_inversion_mesh]
Ghost(ss, p) == [seed |-> Meshes(ss), entry |-> [pulse |-> p, slices |-> ss]]

PropTypes == {"abcd_lct", "n0n2_lct", "n0n2_srw", "gain_calc", "default", "nl_kick"}

\* no LCT propagation made; wfr is the wavefront to propagate
NoLct == [kind |-> "none", wfr |-> [gx |-> MeshAxis(5), gy |-> MeshAxis(5), values |-> <<>>]]

\* A run is a crystal and the passes made through it, all with one mode and
\* one choice of switches; each pass brings a new pulse.
Started(ss, p, c, l) ==
    /\ slices = ss
    /\ pulse = p
    /\ call = c
    /\ log = <<>>
    /\ gains = <<>>
    /\ ghost = Ghost(ss, p)
    /\ lct = l

Init ==
    \E nslice \in 1 .. MaxSlices, delta_n \in BOOLEAN, offset \in {<<0, 0>>, <<1, 0>>},
       prop_type \in PropTypes, calc_gain \in BOOLEAN, radial_n2 \in BOOLEAN,
       nl_kick \in BOOLEAN :
        Started(NewCrystal(nslice, delta_n, offset, MeshAxis(3), "peak"),
                NewPulse(0, <<0, 0>>, MeshAxis(3)),
                NoCall(prop_type, calc_gain, radial_n2, nl_kick), NoLct)

Next == Call \/ SliceStep \/ Return

Spec == Init /\ [][Next]_vars

(* -------------------- specification: gain calculator ------------------ *)

\* gain events applied in a row by the gain-calculator specification
MaxGainEvents == 2

\* calc_gain applied repeatedly to one crystal slice and one pulse slice
\* drawn from the input sets
GainInit ==
    \E sp \in SeedPatterns, nslice \in {1, 2}, pp \in PhotonPatterns,
       ax \in {MeshAxis(4), NarrowAxis(4)}, ay \in {MeshAxis(4), NarrowAxis(4)},
       sg \in {ROne, R(1, 2)} :
        Started(NewCrystal(nslice, FALSE, <<0, 0>>, MeshAxis(4), sp),
                [NewPulse(0, <<1, 0>>, ax) EXCEPT
                    !.units = <<NewWfrSlice(0, 0, ax, ay, PhotonMesh(pp, ax, ay), sg)>>],
                NoCall("gain_calc", TRUE, FALSE, FALSE), NoLct)

GainAppended(r) ==
    /\ gains' = Append(gains, GainRecord(slices[1], pulse.units[1], r,
                                         [call |-> 0, branch |-> "main"]))
    /\ slices' = [slices EXCEPT ![1] = r.s]
    /\ pulse' = [pulse EXCEPT !.units[1] = r.ws]
    /\ UNCHANGED <<call, log, ghost, lct>>

GainEvent ==
    /\ Len(gains) < MaxGainEvents
    /\ GainAppended(CalcGain(slices[1], pulse.units[1]))

GainNext == GainEvent

SpecGain == GainInit /\ [][GainNext]_vars

(* -------------------- specification: LCT propagation ------------------ *)

\* LCT propagations applied in a row by the LCT specification
MaxLctSteps == 2

\* field values of a wavefront or of a kernel output (inputs of the model)
FieldPatterns == {"ramp", "bump"}
FieldValues(pattern, nx, ny) ==
    Eval([c \in (1 .. nx) \X (1 .. ny) |->
            IF pattern = "ramp" THEN FromFix(c[1] + 2 * c[2])
            ELSE IF c = <<2, 3>> THEN ROne ELSE RZero])

\* what the kernel may return: 4, 5 or 7 samples on an axis, spaced so that
\* the signal spans the mesh's width or half of it, each axis on its own
KernelSpacing(count, wide) ==
    ((IF wide THEN 2 ELSE 1) * CrystalParams.mesh_half_width) \div (count - 1)
KernelOutput(nx, ny, wide, pattern) ==
    [nx |-> nx, ny |-> ny, dx |-> KernelSpacing(nx, wide[1]), dy |-> KernelSpacing(ny, wide[2]),
     values |-> FieldValues(pattern, nx, ny)]
KernelOutputs ==
    {KernelOutput(nx, ny, wide, "ramp") :
        nx \in {4, 5}, ny \in {4, 5, 7}, wide \in BOOLEAN \X BOOLEAN}

LctInit ==
    \E ax \in {MeshAxis(4), MeshAxis(5)}, ay \in {MeshAxis(4), NarrowAxis(5)},
       pattern \in FieldPatterns :
        Started(NewCrystal(1, FALSE, <<0, 0>>, MeshAxis(5), "dark"),
                NewPulse(0, <<0, 0>>, MeshAxis(5)),
                NoCall("abcd_lct", FALSE, FALSE, FALSE),
                [NoLct EXCEPT !.wfr = [gx |-> ax, gy |-> ay,
                                       values |-> FieldValues(pattern, ax.n, ay.n)]])

\* a slice handler of crystal.py propagates the wavefront
CrystalLct ==
    /\ call.ncalls < MaxLctSteps
    /\ \E out \in KernelOutputs : lct' = PropagateLct(lct.wfr, out, pulse.l_scale)
    /\ call' = [call EXCEPT !.ncalls = @ + 1]
    /\ UNCHANGED <<slices, pulse, log, gains, ghost>>

\* an element of element.py propagates the wavefront
ElementLct ==
    /\ call.ncalls < MaxLctSteps
    /\ \E out \in KernelOutputs : lct' = WfrPropAbcdLct(lct.wfr, out, pulse.l_scale)
    /\ call' = [call EXCEPT !.ncalls = @ + 1]
    /\ UNCHANGED <<slices, pulse, log, gains, ghost>>

LctNext == CrystalLct \/ ElementLct

SpecLct == LctInit /\ [][LctNext]_vars

(* ------------------------- Crystal construction ----------------------- *)

\* What a user hands to Crystal(params): nslice, n0 and n2.  A field the user
\* leaves out is 0 or <<>>, which is what the code's tests "not o.get(field)"
\* see; an array a user supplies is not empty and a count is positive.
N_SLICE_DEFAULT == 50
N0_DEFAULT == R(7, 4)
N2_DEFAULT == R(1, 1000)

\* [value for _ in range(n)]
Fill(value, n) == [i \in 1 .. n |-> value]

\* _CRYSTAL_DEFAULTS: the fields the construction of the slices reads
CrystalDefaults ==
    [nslice |-> N_SLICE_DEFAULT, n0 |-> Fill(N0_DEFAULT, N_SLICE_DEFAULT),
     n2 |-> Fill(N2_DEFAULT, N_SLICE_DEFAULT), length |-> CrystalParams.length]

\* ValidatorBase._get_params(params): the defaults, with the fields the user
\* supplied in place of the default ones
ValidatorGetParams(o) ==
    [CrystalDefaults EXCEPT !.nslice = IF o.nslice = 0 THEN @ ELSE o.nslice,
                            !.n0 = IF o.n0 = <<>> THEN @ ELSE o.n0,
                            !.n2 = IF o.n2 = <<>> THEN @ ELSE o.n2]

\* The outcome r of a step of the construction is the parameters so far,
\* r.p, and the exception raised, r.err ("" for none).

\* _update_n0_and_n2 that fills in defaults whenever the length differs
UpdateN0AndN2Lenient(r, o, field, default) ==
    IF r.err # "" \/ Len(r.p[field]) = r.p.nslice THEN r
    ELSE [r EXCEPT !.p[field] = Fill(default, r.p.nslice)]

\* _update_n0_and_n2(params_final, params, field) after the outcome r
UpdateN0AndN2(r, o, field, default) ==
    IF r.err # "" \/ Len(r.p[field]) = r.p.nslice THEN r
    ELSE IF o[field] = <<>> THEN [r EXCEPT !.p[field] = Fill(default, r.p.nslice)]
    ELSE [r EXCEPT !.err = "ElementException"]

\* the last branch of _get_params: n0 or n2 supplied without nslice
ShorterOf(p) ==
    IF Len(p.n0) < p.nslice \/ Len(p.n2) < p.nslice
    THEN [p EXCEPT !.nslice = IF Len(p.n0) < Len(p.n2) THEN Len(p.n0) ELSE Len(p.n2)]
    ELSE p

\* Crystal._get_params(params) for the user's parameters o
GetParams(o) ==
    LET p == [p |-> ValidatorGetParams(o), err |-> ""]
    IN  IF o.nslice = 0 /\ o.n0 = <<>> /\ o.n2 = <<>> THEN p
        ELSE IF o.nslice # 0
             THEN UpdateN0AndN2(UpdateN0AndN2(p, o, "n0", N0_DEFAULT), o, "n2", N2_DEFAULT)
             ELSE [p EXCEPT !.p = ShorterOf(@)]

\* the test on n2 left out
NoNegativeN2(n2) == FALSE

\* (np.array(params.n2) < 0.0).any()
AnyNegativeN2(n2) == \E i \in 1 .. Len(n2) : RLt(n2[i], RZero)

\* the loop of Crystal.__init__ over range(self.nslice): slice j gets n0[j],
\* n2[j], length / nslice and slice_index j
BuildSlices(p, delta_n, pump_offset, axis, seed) ==
    [i \in 1 .. p.nslice |->
        NewSlice([SliceParams(i - 1, p.nslice, delta_n, pump_offset, axis) EXCEPT
                      !.n0 = p.n0[i], !.n2 = p.n2[i]],
                 SeedMesh(seed, axis))]

\* Crystal.__init__ after _get_params gave r: the exception it ends with and
\* the slices it made, their meshes seeded by the pump
CrystalInit(r, seed) ==
    IF r.err # "" THEN [err |-> r.err, slices |-> <<>>, nslice |-> 0]
    ELSE IF AnyNegativeN2(r.p.n2) THEN [err |-> "ElementException", slices |-> <<>>, nslice |-> 0]
    ELSE [err |-> "", slices |-> BuildSlices(r.p, FALSE, <<0, 0>>, MeshAxis(3), seed),
          nslice |-> r.p.nslice]

(* -------------------- specification: construction --------------------- *)

\* the n2 arrays a user supplies: positive, with a zero, with a negative entry
N2Array(n, sign) ==
    [i \in 1 .. n |-> IF i < n \/ sign = "positive" THEN ROne
                      ELSE IF sign = "zero" THEN RZero ELSE RNeg(ROne)]

\* Before and after a construction ghost holds the user's parameters, the
\* parameters _get_params gave and the crystal's nslice.
BuildInit ==
    \E nslice \in {0, 2, 3},
       n0 \in {<<>>} \cup {Fill(RInt(2), n) : n \in {2, 3, N_SLICE_DEFAULT + 1}},
       n2 \in {<<>>} \cup {N2Array(n, sign) : n \in {2, 3, N_SLICE_DEFAULT + 2},
                                             sign \in {"positive", "zero", "negative"}} :
        /\ slices = <<>>
        /\ pulse = NewPulse(0, <<0, 0>>, MeshAxis(3))
        /\ call = [NoCall("n0n2_srw", FALSE, FALSE, FALSE) EXCEPT !.pc = "unbuilt"]
        /\ log = <<>>
        /\ gains = <<>>
        /\ ghost = [seed |-> <<>>, entry |-> [pulse |-> pulse, slices |-> <<>>],
                    user |-> [nslice |-> nslice, n0 |-> n0, n2 |-> n2],
                    params |-> CrystalDefaults, nslice |-> 0]
        /\ lct = NoLct

\* Crystal(params): r is what _get_params gave, c what __init__ made
Construct ==
    /\ call.pc = "unbuilt"
    /\ LET r == GetParams(ghost.user)
           c == CrystalInit(r, "dark")
       IN  /\ slices' = c.slices
           /\ call' = [call EXCEPT !.pc = IF c.err = "" THEN "idle" ELSE "rejected",
                                   !.err = c.err]
           /\ ghost' = [ghost EXCEPT !.seed = Meshes(c.slices), !.entry.slices = c.slices,
                                     !.params = r.p, !.nslice = c.nslice]
    /\ UNCHANGED <<pulse, log, gains, lct>>

SpecBuild == BuildInit /\ [][Construct]_vars

(* --------------- specification: operations on a crystal --------------- *)

\* the loop "for s in self.slice" of calc_n0n2 under set_n
SetIndices(ss, n0, n2) ==
    [i \in 1 .. Len(ss) |-> [ss[i] EXCEPT !.n0 = n0[ss[i].slice_index + 1],
                                          !.n2 = n2[ss[i].slice_index + 1]]]

\* Crystal.calc_n0n2(set_n, method=...) between passes: ValueError for an
\* unknown method, else the indices v and w that
\* ThermoOptic.compute_indices hands back, written to the slices under set_n
CalcN0n2 ==
    /\ call.pc \in {"idle", "returned", "failed"}
    /\ \E set_n \in BOOLEAN, method \in {"analytical", "fenics", "other"},
          v \in {RInt(3)}, w \in {R(1, 2)} :
          slices' = IF set_n /\ method # "other"
                    THEN SetIndices(slices, Fill(v, ghost.nslice), Fill(w, ghost.nslice))
                    ELSE slices
    /\ UNCHANGED <<pulse, call, log, gains, ghost, lct>>

\* Crystal.extract_excited_states(): sums over the slices' meshes, handed
\* back to the caller
ExtractExcitedStates ==
    /\ call.pc \in {"idle", "returned", "failed"}
    /\ UNCHANGED vars

\* a pumped crystal built with nslice slices, matching n0 and n2 and a
\* delta_n array, the _srwc field of its slices set or not (only mode
\* "default" reads it), and the passes and calculations made on it
OpsInit ==
    \E nslice \in 1 .. MaxSlices, prop_type \in PropTypes, calc_gain \in BOOLEAN,
       radial_n2 \in BOOLEAN, nl_kick \in BOOLEAN :
      \E srwc \in IF prop_type = "default" THEN BOOLEAN ELSE {FALSE} :
        LET o == [nslice |-> nslice, n0 |-> Fill(RInt(2), nslice), n2 |-> Fill(ROne, nslice)]
            r == GetParams(o)
            c == CrystalInit(r, "peak")
            p == NewPulse(0, <<0, 0>>, MeshAxis(3))
        IN  /\ slices = [i \in 1 .. c.nslice |->
                            [c.slices[i] EXCEPT !.srwc = srwc, !.delta_n = TRUE]]
            /\ pulse = p
            /\ call = NoCall(prop_type, calc_gain, radial_n2, nl_kick)
            /\ log = <<>>
            /\ gains = <<>>
            /\ ghost = [seed |-> Meshes(c.slices), entry |-> [pulse |-> p, slices |-> c.slices],
                        user |-> o, params |-> r.p, nslice |-> c.nslice]
            /\ lct = NoLct

OpsNext == Call \/ SliceStep \/ Return \/ CalcN0n2 \/ ExtractExcitedStates

SpecOps == OpsInit /\ [][OpsNext]_vars

(* ------------------ the ABCD matrix of the LCT modes ------------------ *)

\* Exact values for np.cos, np.sin and np.sinc: angles are whole multiples of
\* the angle Theta whose cosine is 3/5 and whose sine is 4/5, and a number is
\* q.c * Theta^q.e with q.c rational (q.e = 0 for a plain rational).
TMul(a, b) == [c |-> RMul(a.c, b.c), e |-> a.e + b.e]

\* <<cos, sin>> of k * Theta
RECURSIVE CosSin(_)
CosSin(k) ==
    IF k = 0 THEN <<ROne, RZero>>
    ELSE LET p == CosSin(k - 1)
         IN  <<RSub(RMul(p[1], R(3, 5)), RMul(p[2], R(4, 5))),
               RAdd(RMul(p[2], R(3, 5)), RMul(p[1], R(4, 5)))>>

\* np.cos(x) and np.sin(x) for x = k * Theta
NpCos(x) == [c |-> CosSin(x.c.n)[1], e |-> 0]
NpSin(x) == [c |-> CosSin(x.c.n)[2], e |-> 0]

\* np.sinc(x / np.pi) = sin(x) / x, and 1 at 0
NpSincOverPi(x) ==
    IF x.c = RZero THEN [c |-> ROne, e |-> 0]
    ELSE [c |-> RDiv(CosSin(x.c.n)[2], x.c), e |-> -x.e]

\* abcd_mat_cryst of _propagate_n0n2_lct for a slice of length dz and indices
\* n0, n2, a photon wavelength phLambda and a length scale l_scale
N0n2Matrix(n0, n2, dz, phLambda, l_scale) ==
    LET \* np.sqrt(n2 / n0), a rational here
        gamma == [c |-> CHOOSE r \in {R(n, d) : n \in 0 .. 4, d \in 1 .. 4} :
                            RMul(r, r) = RDiv(n2, n0), e |-> 0]
        plain(v) == [c |-> v, e |-> 0]
    IN  [A |-> NpCos(TMul(gamma, dz)),
         B |-> TMul(TMul(dz, NpSincOverPi(TMul(gamma, dz))),
                    plain(RDiv(phLambda, RMul(l_scale, l_scale)))),
         C |-> TMul(TMul(TMul(plain(RNeg(n0)), gamma), NpSin(TMul(gamma, dz))),
                    plain(RDiv(RMul(l_scale, l_scale), phLambda))),
         D |-> NpCos(TMul(gamma, dz))]

\* abcd_mat_cryst of _propagate_abcd_lct for the configured self.A .. self.D
AbcdMatrix(m, phLambda, l_scale) ==
    [A |-> [c |-> m.A, e |-> 0],
     B |-> [c |-> RDiv(RMul(m.B, phLambda), RMul(l_scale, l_scale)), e |-> 0],
     C |-> [c |-> RMul(RDiv(m.C, phLambda), RMul(l_scale, l_scale)), e |-> 0],
     D |-> [c |-> m.D, e |-> 0]]

(* ------------------- specification: the ABCD matrix ------------------- *)

\* one pulse slice of wavelength phLambda goes through one crystal slice in
\* one of the two LCT modes; lct holds the matrix handed to _propagate_lct
MatrixInit ==
    \E prop_type \in {"abcd_lct", "n0n2_lct"},
       \* slices with n0 > n2 >= 0 and a rational sqrt(n2 / n0), of a length
       \* dz > 0 that makes gamma * dz a multiple of Theta
       s \in {[n0 |-> ROne, n2 |-> RZero, dz |-> [c |-> ROne, e |-> 1]],
              [n0 |-> RInt(2), n2 |-> RZero, dz |-> [c |-> RInt(2), e |-> 1]],
              [n0 |-> ROne, n2 |-> R(1, 4), dz |-> [c |-> RInt(2), e |-> 1]],
              [n0 |-> RInt(4), n2 |-> ROne, dz |-> [c |-> RInt(2), e |-> 1]],
              [n0 |-> RInt(4), n2 |-> ROne, dz |-> [c |-> RInt(4), e |-> 1]],
              [n0 |-> RInt(2), n2 |-> R(1, 2), dz |-> [c |-> RInt(2), e |-> 1]],
              [n0 |-> RInt(9), n2 |-> ROne, dz |-> [c |-> RInt(3), e |-> 1]]},
       \* configured ray matrices (self.A, self.B, self.C, self.D) of
       \* determinant 1
       m \in {[A |-> ROne, B |-> RInt(2), C |-> RZero, D |-> ROne],
              [A |-> R(3, 5), B |-> R(4, 5), C |-> R(-4, 5), D |-> R(3, 5)],
              [A |-> RInt(2), B |-> RInt(3), C |-> ROne, D |-> RInt(2)],
              [A |-> ROne, B |-> RZero, C |-> R(-1, 2), D |-> ROne]},
       phLambda \in {ROne, R(1, 2), RInt(3)}, l_scale \in {ROne, RInt(2), R(1, 3)} :
        /\ slices = <<>>
        /\ pulse = NewPulse(0, <<0, 0>>, MeshAxis(3))
        /\ call = NoCall(prop_type, FALSE, FALSE, FALSE)
        /\ log = <<>>
        /\ gains = <<>>
        /\ ghost = [seed |-> <<>>, entry |-> [pulse |-> pulse, slices |-> <<>>]]
        /\ lct = [kind |-> "matrix", slice |-> s, config |-> m, phLambda |-> phLambda,
                  l_scale |-> l_scale, abcd_mat_cryst |-> <<>>]

\* the lines of _propagate_abcd_lct and _propagate_n0n2_lct that make
\* abcd_mat_cryst
MatrixStep ==
    /\ lct.kind = "matrix"
    /\ lct.abcd_mat_cryst = <<>>
    /\ lct' = [lct EXCEPT !.abcd_mat_cryst =
                  IF call.prop_type = "abcd_lct"
                  THEN AbcdMatrix(lct.config, lct.phLambda, lct.l_scale)
                  ELSE N0n2Matrix(lct.slice.n0, lct.slice.n2, lct.slice.dz, lct.phLambda,
                                  lct.l_scale)]
    /\ UNCHANGED <<slices, pulse, call, log, gains, ghost>>

SpecAbcd == MatrixInit /\ [][MatrixStep]_vars

(* ------------------------ properties of the passes -------------------- *)

UnitOps == {"gain", "kick", "transform"}

\* a call of Crystal.propagate got past the assertion on the direction
Entered == call.pc # "idle" /\ pulse.direction \in {0, 180}

\* the slice_index of the crystal slices in the order stated for the pulse's
\* direction: 0 .. n-1 for direction 0, n-1 .. 0 for direction 180
StatedOrder ==
    [i \in 1 .. Len(slices) |-> IF pulse.direction = 0 THEN i - 1 ELSE Len(slices) - i]

\* the update_photon_positions events of the call, and how many of them
\* precede position i of the log
Updates == SelectSeq(log, LAMBDA e : e.op = "update")
UpdatesBefore(i) == Cardinality({m \in 1 .. i - 1 : log[m].op = "update"})

\* the crystal slice of index cs has been left by the call
Finished(cs) == \E i \in 1 .. Len(log) : log[i].op = "update" /\ log[i].cs = cs

\* the time slices and bandwidth sub-slices of the pulse
UnitSet == {<<pulse.units[i].j, pulse.units[i].k>> : i \in 1 .. Len(pulse.units)}

\* the names of the operations the log holds for crystal slice cs and
\* (sub-)slice u, on branch b and on any branch, in the order applied
OpNames(events) == [i \in 1 .. Len(events) |-> events[i].op]
OpsOf(cs, b, u) ==
    OpNames(SelectSeq(log, LAMBDA e : /\ e.op \in UnitOps
                                      /\ e.cs = cs
                                      /\ e.branch = b
                                      /\ <<e.j, e.k>> = u))
OpsOn(cs, u) ==
    OpNames(SelectSeq(log, LAMBDA e : e.op \in UnitOps /\ e.cs = cs /\ <<e.j, e.k>> = u))

IsPrefix(a, b) == Len(a) <= Len(b) /\ \A i \in 1 .. Len(a) : a[i] = b[i]

\* C1: the slices are visited in index order 0 .. n-1 for direction 0 and in
\* reversed order for direction 180, each exactly once; the work on a slice
\* starts only after the previous slice has finished every time slice and
\* bandwidth sub-slice; update_photon_positions is called exactly once after
\* each slice.
C1_SlicesInOrder ==
    Entered =>
        /\ Len(Updates) <= Len(slices)
        /\ pulse.nupdate = Len(Updates)
        /\ \A m \in 1 .. Len(Updates) : Updates[m].cs = StatedOrder[m]
        /\ \A i \in 1 .. Len(log) :
              log[i].op \in UnitOps \cup {"combine", "update"} =>
                  /\ UpdatesBefore(i) < Len(slices)
                  /\ log[i].cs = StatedOrder[UpdatesBefore(i) + 1]
        /\ \A i \in 1 .. Len(log) :
              log[i].op = "update" =>
                  \A u \in UnitSet :
                      \E m \in 1 .. i - 1 : /\ log[m].op \in UnitOps
                                            /\ log[m].cs = log[i].cs
                                            /\ <<log[m].j, log[m].k>> = u
        /\ call.pc = "returned" => Len(Updates) = Len(slices)

\* C1 witness: a returned pass in direction 180 through two slices with a
\* pulse of more than one (sub-)slice
C1_Witness ==
    /\ call.pc = "returned"
    /\ pulse.direction = 180
    /\ Len(slices) >= 2
    /\ Len(pulse.units) >= 2
    /\ Updates[1].cs = Len(slices) - 1

\* C2: a pulse whose direction is neither 0 nor 180 makes propagate fail
\* before the shift, before any slice is visited and before any gain; pulse
\* and meshes are as they were at the call.
C2_BadDirectionFailsFirst ==
    (call.pc # "idle" /\ pulse.direction \notin {0, 180}) =>
        /\ call.pc = "failed"
        /\ call.err = "AssertionError"
        /\ log = <<>>
        /\ \A i \in 1 .. Len(gains) : gains[i].call # call.ncalls
        /\ pulse = ghost.entry.pulse
        /\ slices = ghost.entry.slices

\* C2 witness: a pulse of direction 90 has failed on a crystal with an
\* off-axis pump whose meshes an earlier pass has depleted
C2_Witness ==
    /\ call.pc = "failed"
    /\ pulse.direction = 90
    /\ OffAxis(slices)
    /\ gains # <<>>
    /\ Meshes(slices) # ghost.seed

KnownModes == {"abcd_lct", "n0n2_lct", "n0n2_srw", "gain_calc", "default"}

\* C3: a mode string that is none of the five known ones raises an error
\* before any gain, kick or transform; meshes, fields and photon counts are
\* as they were at the call.
C3_UnknownModeRaisesFirst ==
    (Entered /\ call.prop_type \notin KnownModes) =>
        /\ call.pc # "returned"
        /\ call.pc = "running" => Len(call.todo) = Len(slices)
        /\ call.pc = "failed" =>
              call.err = (IF call.radial_n2 THEN "AssertionError" ELSE "KeyError")
        /\ \A i \in 1 .. Len(log) : log[i].op = "shift"
        /\ \A i \in 1 .. Len(gains) : gains[i].call # call.ncalls
        /\ Meshes(slices) = Meshes(ghost.entry.slices)
        /\ pulse.units = ghost.entry.pulse.units

\* C3 witness: the dispatch has raised KeyError in a call with both switches
\* on
C3_Witness ==
    /\ call.pc = "failed"
    /\ call.err = "KeyError"
    /\ call.prop_type \notin KnownModes
    /\ call.calc_gain
    /\ call.nl_kick
    /\ Len(pulse.units) >= 2

\* the operations stated for one (sub-)slice in one slice handler call
StatedOps(b) ==
    (IF call.calc_gain THEN <<"gain">> ELSE <<>>)
        \o (IF call.nl_kick /\ b = "main" THEN <<"kick">> ELSE <<>>)
        \o <<"transform">>

\* the branches of a round: the pulse itself, or its two copies under
\* radial_n2
Branches == IF call.radial_n2 THEN {"n2_max", "n2_0"} ELSE {"main"}

\* the kind of operation of an entry of a field's history
FieldKind(op) == IF op \in {"lct", "srw"} THEN "transform" ELSE op

\* C4: in the modes abcd_lct, n0n2_lct and n0n2_srw every time slice and
\* bandwidth sub-slice receives gain (if calc_gain), then kick (if nl_kick),
\* then the transform, on its own field: the transform exactly once, gain
\* and kick at most once and never after the transform.
C4_GainKickTransform ==
    (Entered /\ call.prop_type \in {"abcd_lct", "n0n2_lct", "n0n2_srw"}) =>
        /\ \A cs \in 0 .. Len(slices) - 1, b \in {"main", "n2_max", "n2_0"}, u \in UnitSet :
              /\ IsPrefix(OpsOf(cs, b, u), StatedOps(b))
              /\ b \notin Branches => OpsOf(cs, b, u) = <<>>
              /\ (Finished(cs) /\ b \in Branches) => OpsOf(cs, b, u) = StatedOps(b)
        /\ ~call.radial_n2 =>
              \A i \in 1 .. Len(pulse.units) :
                  [m \in 1 .. Len(pulse.units[i].field) |->
                      FieldKind(pulse.units[i].field[m].op)]
                  = OpNames(SelectSeq(log, LAMBDA e :
                                /\ e.op \in UnitOps
                                /\ <<e.j, e.k>> = <<pulse.units[i].j, pulse.units[i].k>>))

\* C4 witness: a returned n0n2_lct pass with gain and kick through two
\* slices, with a pulse that has a bandwidth sub-slice
C4_Witness ==
    /\ call.pc = "returned"
    /\ call.prop_type = "n0n2_lct"
    /\ call.calc_gain
    /\ call.nl_kick
    /\ ~call.radial_n2
    /\ Len(slices) >= 2
    /\ <<0, 1>> \in UnitSet
    /\ OpsOf(1, "main", <<0, 1>>) = <<"gain", "kick", "transform">>

\* C5: in the mode gain_calc the gain is applied exactly once to every time
\* slice and bandwidth sub-slice, and neither transform nor kick is applied,
\* whatever calc_gain and nl_kick are.
C5_GainCalcGainOnly ==
    (Entered /\ call.prop_type = "gain_calc") =>
        /\ \A i \in 1 .. Len(log) : log[i].op \notin {"kick", "transform", "combine"}
        /\ \A cs \in 0 .. Len(slices) - 1, u \in UnitSet :
              /\ IsPrefix(OpsOn(cs, u), <<"gain">>)
              /\ Finished(cs) => OpsOn(cs, u) = <<"gain">>
        /\ \A i \in 1 .. Len(pulse.units) :
              \A m \in 1 .. Len(pulse.units[i].field) : pulse.units[i].field[m].op = "gain"
        /\ \A i \in 1 .. Len(pulse.units) :
              call.pc = "returned" => Len(pulse.units[i].field) = Len(slices)

\* C5 witness: a returned gain_calc pass called with calc_gain off and
\* nl_kick on, on a crystal without a delta_n array
C5_Witness ==
    /\ call.pc = "returned"
    /\ call.prop_type = "gain_calc"
    /\ ~call.calc_gain
    /\ call.nl_kick
    /\ ~slices[1].delta_n
    /\ Len(pulse.units) >= 2
    /\ Len(slices) >= 2

\* the gain events on the crystal's own slices (the events on the n2 = 0 copy
\* of a slice under radial_n2 act on the copy), the ones before event i on
\* the same slice, and the ones on slice cs
OwnGains == {i \in 1 .. Len(gains) : gains[i].branch # "n2_0"}
EarlierOn(i) == {m \in OwnGains : m < i /\ gains[m].cs = gains[i].cs}
GainsOn(cs) == {m \in OwnGains : gains[m].cs = cs}
Latest(S) == CHOOSE m \in S : \A n \in S : n <= m

\* the mesh of slice cs as the events in S left it
MeshAfter(S, cs) ==
    IF S = {} THEN ghost.seed[cs + 1] ELSE gains[Latest(S)].mesh_written

\* C6: gain depletion accumulates in the traversed slice's mesh: every gain
\* event reads the mesh as the previous event on that slice left it (in this
\* pass or an earlier one), adds its change to it, and changes no other
\* slice's mesh.
C6_DepletionAccumulates ==
    /\ \A i \in OwnGains :
          /\ gains[i].mesh_read = MeshAfter(EarlierOn(i), gains[i].cs)
          /\ \A c \in DOMAIN gains[i].mesh_read :
                gains[i].mesh_written[c] = RAdd(gains[i].mesh_read[c], gains[i].change[c])
    /\ \A p \in 1 .. Len(slices) :
          slices[p].pop_inversion_mesh = MeshAfter(GainsOn(slices[p].slice_index),
                                                   slices[p].slice_index)

\* C6 witness: three gain events on one slice of a two-slice crystal, the
\* first in an earlier pass than the last, each of which changed the mesh
C6_Witness ==
    /\ Len(slices) >= 2
    /\ \E i \in OwnGains, m \in OwnGains, q \in OwnGains :
          /\ i < m /\ m < q
          /\ gains[i].cs = gains[q].cs /\ gains[m].cs = gains[q].cs
          /\ gains[i].call < gains[q].call
          /\ gains[m].call = gains[q].call
          /\ gains[i].mesh_written # gains[i].mesh_read
          /\ gains[m].mesh_written # gains[m].mesh_read
          /\ gains[q].mesh_written # gains[q].mesh_read

(* ------------------------ properties of calc_gain --------------------- *)

\* the last gain event
LastGain == gains[Len(gains)]
Gained == gains # <<>>

\* the last gain event ran with the field grid equal to the mesh grid
GridsCoincide == LastGain.gx = LastGain.axis /\ LastGain.gy = LastGain.axis

\* the cells of the last gain event's field grid
GainCells == Cells(LastGain.gx, LastGain.gy)

\* C7: in every gain event the energy gain used for the photon counts, the
\* mesh and the field is at least 1.0 in every cell, and no cell's photon count
\* decreases.
C7_GainAtLeastOne ==
    Gained =>
        /\ \A c \in GainCells :
              /\ LastGain.gain[c] >= FP
              /\ LastGain.ws.photons[c] = RMul(LastGain.photons_read[c], FromFix(LastGain.gain[c]))
              /\ RLe(LastGain.photons_read[c], LastGain.ws.photons[c])
        /\ LastGain.ws.field[Len(LastGain.ws.field)] = FieldOp("gain", LastGain.cs, LastGain.gain)
        /\ LastGain.change =
              InterpolateAToB(LastGain.axis, LastGain.gx, LastGain.gy,
                              ChangePopMesh(LastGain.gain, LastGain.len,
                                            [LastGain.ws EXCEPT !.photons = LastGain.photons_read]),
                              LastGain.axis, LastGain.axis)

\* C7 witness: a gain event on coincident grids in which the formula gave a
\* value below 1.0 in an illuminated cell and the event used 1.0 there
C7_Witness ==
    /\ Gained
    /\ GridsCoincide
    /\ \E c \in GainCells :
          /\ LastGain.photons_read[c].n > 0
          /\ RawGain(Epsilon(LastGain.ws, LastGain.photons_read[c]),
                     Beta(LastGain.ws, LastGain.mesh_read[c], LastGain.len)) < FP
          /\ LastGain.gain[c] = FP

\* C8: every gain event leaves every cell of the slice's population-inversion
\* mesh less than or equal to its value before the event (photon counts are
\* non-negative in every state of this specification).
C8_MeshNeverIncreases ==
    Gained =>
        \A c \in Cells(LastGain.axis, LastGain.axis) :
            RLe(LastGain.mesh_written[c], LastGain.mesh_read[c])

\* C9: when the field grid and the mesh grid coincide, in every cell
\* (decrease of the mesh) x (slice length) x (dx * dy) equals
\* degeneracy x (increase of the photon count).
C9_InversionRemovedIsPhotonsAdded ==
    (Gained /\ GridsCoincide) =>
        \A c \in GainCells :
            RMul(RMul(RSub(LastGain.mesh_read[c], LastGain.mesh_written[c]), LastGain.len),
                 CellArea(LastGain.ws))
            = RMul(degen_factor, RSub(LastGain.ws.photons[c], LastGain.photons_read[c]))

\* C9 witness: a gain event on coincident grids, in a slice of length 1/2, that
\* added photons to a cell and took inversion from it
C9_Witness ==
    /\ Gained
    /\ GridsCoincide
    /\ LastGain.len = R(1, 2)
    /\ \E c \in GainCells :
          /\ RLt(LastGain.photons_read[c], LastGain.ws.photons[c])
          /\ RLt(LastGain.mesh_written[c], LastGain.mesh_read[c])

(* --------------------- properties of the LCT propagation -------------- *)

Propagated == lct.kind # "none"

OddCounts(w) == w.gx.n % 2 = 1 /\ w.gy.n % 2 = 1

\* axis b is axis a made odd: an even count n becomes n + 1 over the same
\* extent, an odd count is left as it is
MadeOdd(a, b) ==
    IF a.n % 2 = 0 THEN b = [start |-> a.start, fin |-> a.fin, n |-> a.n + 1] ELSE b = a

\* C10: in every LCT propagation the field handed to the kernel and the
\* wavefront rebuilt from the kernel's output have odd sample counts on both
\* axes, whatever the parity of the incoming grid and of the grid the kernel
\* returns; an even count n becomes n + 1 over the same extent and an odd
\* count is left unchanged with unchanged field values.
C10_OddGrids ==
    Propagated =>
        /\ OddCounts(lct.fed)
        /\ OddCounts(lct.odd)
        /\ OddCounts(lct.wfr)
        /\ MadeOdd(lct.wfr0.gx, lct.fed.gx)
        /\ MadeOdd(lct.wfr0.gy, lct.fed.gy)
        /\ MadeOdd(lct.out.gx, lct.odd.gx)
        /\ MadeOdd(lct.out.gy, lct.odd.gy)
        /\ OddCounts(lct.wfr0) => lct.fed.values = lct.wfr0.values
        /\ OddCounts(lct.out) => lct.odd.values = lct.out.values
        /\ lct.wfr.values = lct.odd.values

\* C10 witness: a propagation of a wavefront with an even count on one axis
\* in which the kernel returned an even count on the other axis
C10_Witness ==
    /\ Propagated
    /\ lct.wfr0.gx.n % 2 = 0
    /\ lct.wfr0.gy.n % 2 = 1
    /\ lct.out.gx.n % 2 = 1
    /\ lct.out.gy.n % 2 = 0
    /\ lct.fed.values # lct.wfr0.values

(* ------------------- properties of the frame and the topology --------- *)

\* the positions of the log that hold the pulse-level operation op
PositionsOf(op) == {i \in 1 .. Len(log) : log[i].op = op /\ log[i].cs = -1}

\* C11: when the first slice's pump is off the axis, a call that returns
\* shifts the pulse by the offset exactly once before the first slice and by
\* the opposite exactly once after the last slice and before the final
\* resize, so the net shift on return is zero; with no offset no shift is
\* applied; the final resize runs exactly once, after the last slice.
C11_ShiftAndRestore ==
    LET shifts == PositionsOf("shift")
        unshifts == PositionsOf("unshift")
        resizes == PositionsOf("resize")
    IN  /\ Entered =>
              /\ Cardinality(shifts) = (IF OffAxis(slices) THEN 1 ELSE 0)
              /\ shifts \subseteq {1}
              /\ call.pc # "returned" =>
                    /\ unshifts = {}
                    /\ resizes = {}
                    /\ pulse.shift = (IF OffAxis(slices) THEN PumpOffset(slices) ELSE <<0, 0>>)
        /\ call.pc = "returned" =>
              /\ resizes = {Len(log)}
              /\ unshifts = (IF OffAxis(slices) THEN {Len(log) - 1} ELSE {})
              /\ \A i \in 1 .. Len(log) :
                    log[i].op = "update" => \A m \in unshifts \cup resizes : i < m
              /\ pulse.shift = <<0, 0>>

\* C11 witness: a returned n0n2_lct pass through two slices of a crystal
\* whose pump is off the axis
C11_Witness ==
    /\ call.pc = "returned"
    /\ OffAxis(slices)
    /\ Len(slices) >= 2
    /\ call.prop_type = "n0n2_lct"
    /\ log[1].op = "shift"
    /\ log[Len(log) - 1].op = "unshift"


RECURSIVE LengthSum(_, _)
LengthSum(ss, n) == IF n = 0 THEN RZero ELSE RAdd(LengthSum(ss, n - 1), ss[n].length)

\* C12: after a successful construction and after any sequence of passes
\* (either direction, any mode), calc_n0n2 and extract_excited_states calls,
\* the crystal holds exactly nslice slices in construction order: slice j has
\* slice_index j and length crystal length / nslice, and the lengths sum to
\* the crystal length.
C12_TopologyFixed ==
    /\ Len(slices) = ghost.nslice
    /\ ghost.nslice = ghost.user.nslice
    /\ \A i \in 1 .. Len(slices) :
          /\ slices[i].slice_index = i - 1
          /\ slices[i].length = R(CrystalParams.length, ghost.nslice)
    /\ LengthSum(slices, Len(slices)) = RInt(CrystalParams.length)

C12_Witness ==
    /\ call.pc = "returned"
    /\ call.ncalls = 2
    /\ ghost.entry.pulse.direction = 180
    /\ Len(slices) = 2
    /\ slices[2].n0 = RInt(3)
    /\ slices[2].n2 = R(1, 2)

\* the constructor has run on the user's parameters
Built == call.pc \in {"idle", "rejected"}
HasNegative(n2) == \E i \in 1 .. Len(n2) : n2[i].n < 0

\* C13: a construction with any negative entry in n2 fails with the input
\* error (ElementException) and creates no slice; a construction that
\* succeeds has no negative entry in n2 (zero entries are accepted).
C13_NegativeN2Rejected ==
    Built =>
       /\ HasNegative(ghost.user.n2) =>
             /\ call.pc = "rejected"
             /\ call.err = "ElementException"
             /\ slices = <<>>
       /\ call.pc = "idle" =>
             /\ ~HasNegative(ghost.params.n2)
             /\ call.err = ""
             /\ slices # <<>>
       /\ (~HasNegative(ghost.user.n2) /\ ghost.user.nslice = 0) => call.pc = "idle"

C13_Witness ==
    /\ call.pc = "rejected"
    /\ ghost.user.nslice = 3
    /\ ghost.user.n0 = <<>>
    /\ Len(ghost.user.n2) = 3
    /\ HasNegative(ghost.user.n2)
    /\ slices = <<>>

\* the user supplied the array and its length is not the nslice supplied
Mismatch(array) == array # <<>> /\ Len(array) # ghost.user.nslice

\* C14: with an explicit nslice, a construction with a user-supplied n0 or n2
\* whose length differs from nslice fails with the input error
\* (ElementException); an n0 or n2 the user did not supply is filled with
\* nslice default values and the construction proceeds.
C14_ExplicitNslice ==
    (Built /\ ghost.user.nslice # 0) =>
       /\ (Mismatch(ghost.user.n0) \/ Mismatch(ghost.user.n2)) =>
             /\ call.pc = "rejected"
             /\ call.err = "ElementException"
             /\ slices = <<>>
       /\ ghost.user.n0 = <<>> =>
             ghost.params.n0 = [i \in 1 .. ghost.user.nslice |-> N0_DEFAULT]
       /\ (ghost.user.n2 = <<>> /\ ~Mismatch(ghost.user.n0)) =>
             ghost.params.n2 = [i \in 1 .. ghost.user.nslice |-> N2_DEFAULT]
       /\ (~Mismatch(ghost.user.n0) /\ ~Mismatch(ghost.user.n2) /\ ~HasNegative(ghost.user.n2)) =>
             /\ call.pc = "idle"
             /\ Len(slices) = ghost.user.nslice
             /\ \A i \in 1 .. Len(slices) :
                   /\ slices[i].n0 = ghost.params.n0[i]
                   /\ slices[i].n2 = ghost.params.n2[i]
                   /\ ghost.user.n0 # <<>> => slices[i].n0 = ghost.user.n0[i]
                   /\ ghost.user.n2 # <<>> => slices[i].n2 = ghost.user.n2[i]

C14_Witness ==
    /\ call.pc = "rejected"
    /\ call.err = "ElementException"
    /\ ghost.user.nslice = 2
    /\ Len(ghost.user.n0) = 3
    /\ ghost.user.n2 = <<>>

\* C15: a construction with n0 and/or n2 supplied but no nslice, when the
\* lengths of the arrays (after the defaults are filled in) do not match the
\* slice count, makes a crystal of exactly min(len(n0), len(n2)) slices.
C15_ShorterOfTwo ==
    (/\ Built
     /\ ghost.user.nslice = 0
     /\ ghost.user.n0 # <<>> \/ ghost.user.n2 # <<>>
     /\ ~HasNegative(ghost.user.n2)
     /\ Len(ghost.params.n0) # N_SLICE_DEFAULT \/ Len(ghost.params.n2) # N_SLICE_DEFAULT) =>
       /\ call.pc = "idle"
       /\ Len(slices) = IF Len(ghost.params.n0) < Len(ghost.params.n2)
                        THEN Len(ghost.params.n0) ELSE Len(ghost.params.n2)

\* C16: a pass with radial_n2 and a mode other than n0n2_srw fails with an
\* error in the first round of the loop, before either copy of the pulse goes
\* through any slice and before any gain event: no slice handler has acted,
\* no gain is recorded and every population-inversion mesh is as seeded.
C16_RadialOnlyN0n2Srw ==
    (call.radial_n2 /\ call.prop_type # "n0n2_srw") =>
       /\ call.pc \in {"idle", "running", "failed"}
       /\ call.pc = "running" => call.todo = SliceArray(pulse.direction, Len(slices))
       /\ call.pc = "failed" => call.err = "AssertionError"
       /\ \A i \in 1 .. Len(log) : log[i].op = "shift" /\ log[i].cs = -1
       /\ gains = <<>>
       /\ Meshes(slices) = ghost.seed
       /\ slices = ghost.entry.slices
       /\ pulse.units = (IF OffAxis(slices) /\ call.pc # "idle" /\ DirectionOk(pulse.direction)
                         THEN ShiftWavefront(ghost.entry.pulse, PumpOffset(slices), 1).units
                         ELSE ghost.entry.pulse.units)

C16_Witness ==
    /\ call.pc = "failed"
    /\ call.radial_n2
    /\ call.calc_gain
    /\ call.prop_type = "gain_calc"
    /\ call.todo # <<>>
    /\ DirectionOk(pulse.direction)
    /\ Len(slices) = 2

\* A * D - B * C of the matrix m
Det(m) == RSub(TMul(m.A, m.D).c, TMul(m.B, m.C).c)

\* C17: the ABCD matrix handed to the LCT kernel has determinant
\* A * D - B * C = 1 for every slice, photon wavelength and length scale, in
\* the abcd_lct mode and in the n0n2_lct mode (n0 > n2 >= 0, length > 0).
C17_UnitDeterminant ==
    (lct.kind = "matrix" /\ lct.abcd_mat_cryst # <<>>) =>
       Det(lct.abcd_mat_cryst) = ROne

\* C18: with mode "default", CrystalSlice.propagate forwards the pulse to
\* Element.propagate, runs none of the four crystal algorithms, no gain and
\* no kick, and gives back to its caller the pulse that Element.propagate
\* returns: when Element.propagate returns, the pass goes on with that pulse.
C18_DefaultForwards ==
    (/\ call.prop_type = "default"
     /\ ~call.radial_n2
     /\ call.ncalls > 0
     /\ DirectionOk(pulse.direction)) =>
       /\ \A i \in 1 .. Len(log) :
             \/ log[i].cs = -1
             \/ log[i].op = "update"
             \/ log[i].op = "transform" /\ log[i].k = 0
       /\ gains = <<>>
       /\ Meshes(slices) = ghost.seed
       /\ \A i \in 1 .. Len(pulse.units) : \A n \in 1 .. Len(pulse.units[i].field) :
             pulse.units[i].field[n].arg = "_srwc"
       /\ call.pc = "failed" => (call.err = "ElementException" /\ \A i \in 1 .. Len(slices) : ~slices[i].srwc)

\* the grid axis a is symmetric about zero, has as many points as the axis b
\* of the output field and its spacing times the length scale
RebuiltFrom(a, b) ==
    /\ a.start = -a.fin
    /\ a.n = b.n
    /\ Step(a) = pulse.l_scale * Step(b)

\* C19: after an LCT propagation the rebuilt wavefront's grid is, on each
\* axis separately, symmetric about zero, has as many points as the output
\* field has along that axis and has spacing length scale times the spacing
\* returned for that axis (recomputed when the output was resampled to an odd
\* count), also when the point counts or the spacings of x and y differ.
C19_GridPerAxis ==
    Propagated =>
        /\ RebuiltFrom(lct.wfr.gx, lct.odd.gx)
        /\ RebuiltFrom(lct.wfr.gy, lct.odd.gy)

\* the entries of the field history h that a blend of an earlier round left,
\* and those the present round added
Blends(h) == SelectSeq(h, LAMBDA e : e.op = "combine")
OwnOps(h) == SelectSeq(h, LAMBDA e : e.op # "combine")

\* the history h of a copy that went through crystal slice cs once, with the
\* transform how: the state the round started from, then at most a gain, then
\* the transform
WentThrough(h, cs, how) ==
    /\ h = Blends(h) \o OwnOps(h)
    /\ Len(Blends(h)) <= 1
    /\ Len(OwnOps(h)) = (IF call.calc_gain THEN 2 ELSE 1)
    /\ \A n \in 1 .. Len(OwnOps(h)) : OwnOps(h)[n].cs = cs
    /\ h[Len(h)] = FieldOp("srw", cs, how)
    /\ call.calc_gain => OwnOps(h)[1].op = "gain"

\* C20: in radial_n2 mode, for every slice both propagated pulses are copies
\* of the same pulse state (the blend the previous slice left), one goes
\* through the crystal's own slice and one through a copy of it with n2 = 0,
\* and the crystal's own slice keeps its n0, n2 and length.
C20_RadialCopies ==
    (Entered /\ call.radial_n2 /\ call.prop_type = "n0n2_srw") =>
       /\ \A i \in 1 .. Len(slices) :
             /\ slices[i].n0 = ghost.entry.slices[i].n0
             /\ slices[i].n2 = ghost.entry.slices[i].n2
             /\ slices[i].length = ghost.entry.slices[i].length
       /\ \A i \in 1 .. Len(pulse.units) :
             pulse.units[i].field # <<>> =>
                /\ Len(pulse.units[i].field) = 1
                /\ pulse.units[i].field[1].op = "combine"
                /\ Blends(pulse.units[i].field[1].arg.n2_max)
                      = Blends(pulse.units[i].field[1].arg.n2_0)
                /\ WentThrough(pulse.units[i].field[1].arg.n2_max, pulse.units[i].field[1].cs,
                               IF slices[pulse.units[i].field[1].cs + 1].n2 = RZero
                               THEN "drift" ELSE "lens_drift_lens")
                /\ WentThrough(pulse.units[i].field[1].arg.n2_0, pulse.units[i].field[1].cs,
                               "drift")

C20_Witness ==
    /\ call.pc = "returned"
    /\ call.radial_n2
    /\ call.calc_gain
    /\ Len(slices) = 2
    /\ pulse.direction = 180
    /\ Len(Blends(pulse.units[1].field[1].arg.n2_0)) = 1
    /\ slices[1].n2 # RZero

\* the kick was applied to some time slice or bandwidth sub-slice in this pass
Kicked == \E i \in 1 .. Len(log) : log[i].op = "kick"

\* C21: after construction a slice's population-inversion mesh is written
\* only by gain events.  Every mesh is the seeded one when no gain event acted
\* on the slice and else the mesh the latest gain event on it wrote, whatever
\* passes, kicks, calc_n0n2 and extract_excited_states calls were made since;
\* passes with calc_gain false in mode abcd_lct, n0n2_lct or n0n2_srw, with or
\* without nl_kick, make no gain event and leave every mesh as seeded.
C21_MeshOnlyByGain ==
    /\ \A p \in 1 .. Len(slices) :
          slices[p].pop_inversion_mesh =
             (IF \E m \in OwnGains : gains[m].cs = slices[p].slice_index
              THEN gains[Latest({m \in OwnGains : gains[m].cs = slices[p].slice_index})].mesh_written
              ELSE ghost.seed[p])
    /\ (~call.calc_gain /\ call.prop_type \in {"abcd_lct", "n0n2_lct", "n0n2_srw"}) =>
          /\ gains = <<>>
          /\ Meshes(slices) = ghost.seed

C21_Witness ==
    /\ call.pc = "returned"
    /\ call.ncalls = 2
    /\ ~call.calc_gain
    /\ call.nl_kick
    /\ ~call.radial_n2
    /\ call.prop_type = "n0n2_lct"
    /\ Kicked
    /\ Len(slices) = 2
    /\ slices[1].n0 = RInt(3)
    /\ \E c \in DOMAIN slices[1].pop_inversion_mesh : slices[1].pop_inversion_mesh[c] # RZero
    /\ Meshes(slices) = ghost.seed

\* the field history h holds a kick the present round applied
KickIn(h) == \E n \in 1 .. Len(h) : h[n].op = "kick"

\* C22: in radial_n2 mode a pass never applies the nonlinear kick to any time
\* slice or bandwidth sub-slice, whatever its nl_kick argument: neither of
\* the two slice propagations receives it, so no kick is logged, no copy's
\* field carries one and a missing delta_n array raises nothing.
C22_RadialNeverKicks ==
    call.radial_n2 =>
       /\ ~Kicked
       /\ call.err # "TypeError"
       /\ \A i \in 1 .. Len(pulse.units) : \A n \in 1 .. Len(pulse.units[i].field) :
             /\ pulse.units[i].field[n].op = "combine"
             /\ ~KickIn(pulse.units[i].field[n].arg.n2_max)
             /\ ~KickIn(pulse.units[i].field[n].arg.n2_0)

C22_Witness ==
    /\ call.pc = "returned"
    /\ call.radial_n2
    /\ call.nl_kick
    /\ call.prop_type = "n0n2_srw"
    /\ slices[1].delta_n
    /\ Len(slices) = 2
    /\ \A i \in 1 .. Len(pulse.units) : pulse.units[i].field # <<>>

\* the gain events of branch b in the traversal of crystal slice cs in pass c
BranchGains(c, cs, b) ==
    {m \in 1 .. Len(gains) : gains[m].call = c /\ gains[m].cs = cs /\ gains[m].branch = b}
Earliest(S) == CHOOSE m \in S : \A n \in S : m <= n

\* C23: in radial_n2 mode with calc_gain, a crystal slice's own mesh is
\* decremented by the gain events of the n2_max branch only, one event per
\* time slice and bandwidth sub-slice; the n2 = 0 branch starts from the mesh
\* as it was before this slice was traversed and its depletion lands on the
\* temporary copy of the slice, which is discarded.
C23_RadialGainOnOwnSlice ==
    (call.radial_n2 /\ call.calc_gain /\ call.prop_type = "n0n2_srw") =>
       /\ \A p \in 1 .. Len(slices) :
             slices[p].pop_inversion_mesh =
                (IF BranchGains(call.ncalls, slices[p].slice_index, "n2_max") # {}
                 THEN gains[Latest(BranchGains(call.ncalls, slices[p].slice_index,
                                               "n2_max"))].mesh_written
                 ELSE ghost.entry.slices[p].pop_inversion_mesh)
       /\ \A i \in 1 .. Len(gains) :
             /\ gains[i].branch \in {"n2_max", "n2_0"}
             /\ LET before == {m \in BranchGains(gains[i].call, gains[i].cs, gains[i].branch) :
                                  m < i}
                    own == BranchGains(gains[i].call, gains[i].cs, "n2_max")
                IN  /\ own # {}
                    /\ gains[i].mesh_read =
                          (IF before # {} THEN gains[Latest(before)].mesh_written
                           ELSE gains[Earliest(own)].mesh_read)
                    /\ gains[i].branch = "n2_0" => Latest(own) < i
       /\ \A cs \in 0 .. Len(slices) - 1 :
             Finished(cs) =>
                \A b \in {"n2_max", "n2_0"} :
                   /\ Cardinality(BranchGains(call.ncalls, cs, b)) = Len(pulse.units)
                   /\ {<<gains[m].j, gains[m].k>> : m \in BranchGains(call.ncalls, cs, b)}
                         = UnitSet

C23_Witness ==
    /\ call.pc = "returned"
    /\ call.radial_n2
    /\ call.calc_gain
    /\ call.ncalls = 2
    /\ Len(slices) = 2
    /\ Meshes(slices) # ghost.seed
    /\ \E i \in 1 .. Len(gains) :
          /\ gains[i].branch = "n2_0"
          /\ gains[i].call = 2
          /\ gains[i].mesh_written # gains[i].mesh_read
          /\ gains[i].mesh_read # slices[gains[i].cs + 1].pop_inversion_mesh

\* C24: when the pump offset is non-zero and a pass fails during the slice
\* traversal (unknown mode string, or radial_n2 with a mode other than
\* n0n2_srw, or any other exception of a slice handler), the initial shift
\* has been applied and the inverse shift has not: the caller's pulse is left
\* shifted by the pump offset.
C24_FailedPassLeavesShift ==
    (OffAxis(slices) /\ call.pc = "failed" /\ DirectionOk(pulse.direction)) =>
       /\ call.err \in {"KeyError", "AssertionError", "TypeError", "ElementException"}
       /\ pulse.shift = PumpOffset(slices)
       /\ pulse.shift # ghost.entry.pulse.shift
       /\ log # <<>>
       /\ log[1] = PulseEvent("shift", -1)
       /\ \A i \in 1 .. Len(log) : log[i].op # "unshift"
       /\ call.err \in {"KeyError", "AssertionError"} =>
             /\ pulse = [ghost.entry.pulse EXCEPT !.shift = PumpOffset(slices)]
             /\ log = <<PulseEvent("shift", -1)>>

C24_Witness ==
    /\ OffAxis(slices)
    /\ call.pc = "failed"
    /\ call.err = "KeyError"
    /\ call.prop_type = "nl_kick"
    /\ ~call.radial_n2
    /\ DirectionOk(pulse.direction)
    /\ pulse.shift = <<1, 0>>

====
